---- MODULE Spec2Model ----
\* Model of the param plugins (src/plugins/__init__.py): the schema deriver
\* type_to_map, the resolution plugins get / instances / all / one, the report
\* plugin, the process-wide RECORD_CACHE and the unknown_parameters registry,
\* run against a remote store of form records. Spec is the plugins and the
\* store's other clients; CacheSpec is the same with the fields of each get's
\* fetch kept for comparison; SchemaSpec applies type_to_map to a family of
\* entity definitions.
EXTENDS Integers, Sequences, FiniteSets, TLC

VARIABLES
  env,                 \* Config.get("config", "environment", None)
  store,               \* the remote store: record id -> [form, fields]
  RECORD_CACHE,        \* module global: instance string -> fields
  unknown_parameters,  \* inmanta.export.unknown_parameters, a list
  pc,                  \* position of the compiler thread: "idle" or inside one()
  last,                \* the plugin call made last (or the one() under way):
                       \* arguments, remote calls, outcome
  prev,                \* the get made before it, when both are a get of one instance
  tracking,            \* whether first_fetch is kept
  first_fetch,         \* instance -> the fields the get that fetched it received
  subject,             \* the entity definition handed to type_to_map
  schema               \* what type_to_map made of it

vars == <<env, store, RECORD_CACHE, unknown_parameters, pc, last, prev,
          tracking, first_fetch, subject, schema>>

\* ------------------------------------------------------------------ bounds

\* The registry is a list that only grows: calls that would make it longer
\* than this are not taken.
MaxUnknown == 2

\* ------------------------------------------------------------------ values

\* Python None and the values of the model (numbers are written as digits).
None == "None"

\* Names are Python strings, kept as the sequence of their pieces: "_" is one
\* underscore character, every other piece is a run of other characters.
hostname == <<"hostname">>
replicas == <<"replicas">>
location == <<"location">>
ident == <<"ident">>
modifier == <<"modifier">>
widget == <<"widget">>
record_count == <<"record", "_", "count">>
n_record_count == <<"_">> \o record_count
replicas__modifier == replicas \o <<"_", "_">> \o modifier
hostname__widget == hostname \o <<"_", "_">> \o widget

\* dict helpers: a dict is a function on its key set
EmptyDict == <<>>
Put(d, k, v) == [x \in (DOMAIN d) \cup {k} |-> IF x = k THEN v ELSE d[x]]

\* ------------------------------------------------------ typed entity model

\* The entity definitions of the compiled model, as the host exposes them:
\* name and namespace, own attributes in declaration order, the dict of
\* get_default_values(), and get_all_parent_entities().
Entity(t) ==
  CASE t = "std::Entity" ->
         [name |-> "Entity", namespace |-> "std",
          attributes |-> << [name |-> ident, type |-> "string"] >>,
          defaults |-> EmptyDict,
          parents |-> << >>]
    [] t = "Base" ->
         [name |-> "Base", namespace |-> "__config__",
          attributes |-> << [name |-> n_record_count, type |-> "number"],
                            [name |-> location, type |-> "string"],
                            [name |-> replicas, type |-> "string"] >>,
          defaults |-> (n_record_count :> "1"),
          parents |-> << "std::Entity" >>]
    [] t = "Server" ->
         [name |-> "Server", namespace |-> "__config__",
          attributes |-> << [name |-> hostname, type |-> "string"],
                            [name |-> replicas, type |-> "number"],
                            [name |-> replicas__modifier, type |-> "string"] >>,
          defaults |-> (n_record_count :> "1" @@ replicas :> "1"
                        @@ replicas__modifier :> "ro" @@ hostname :> None),
          parents |-> << "Base", "std::Entity" >>]
    [] t = "Multi" ->
         [name |-> "Multi", namespace |-> "__config__",
          attributes |-> << [name |-> hostname, type |-> "string"],
                            [name |-> n_record_count, type |-> "number"] >>,
          defaults |-> (n_record_count :> "2"),
          parents |-> << "std::Entity" >>]
    [] t = "NoCount" ->
         [name |-> "NoCount", namespace |-> "__config__",
          attributes |-> << [name |-> hostname, type |-> "string"] >>,
          defaults |-> (hostname :> "h0"),
          parents |-> << "std::Entity" >>]
    [] t = "Broken" ->
         [name |-> "Broken", namespace |-> "__config__",
          attributes |-> << [name |-> hostname, type |-> "string"],
                            [name |-> hostname__widget, type |-> "string"] >>,
          defaults |-> EmptyDict,
          parents |-> << "std::Entity" >>]

\* the types context.get_type resolves
KnownTypes == {"Server", "Multi", "NoCount", "Broken"}

\* context.get_type(name): the entity definition, its parents resolved
get_type(t) ==
  [Entity(t) EXCEPT !.parents = [i \in DOMAIN @ |-> Entity(@[i])]]

\* ---------------------------------------------------------- Schema Deriver

AttrNames(attributes) == {attributes[i].name : i \in 1..Len(attributes)}

\* re.search("(.*)__(.*)", name): the first group is greedy, so the match
\* splits the name at its last "__".
re_search(name) ==
  LET at == {i \in 1..(Len(name) - 1) : name[i] = "_" /\ name[i + 1] = "_"}
  IN IF at = {} THEN [matched |-> FALSE]
     ELSE LET i == CHOOSE j \in at : \A k \in at : k <= j
          IN [matched |-> TRUE,
              attr |-> SubSeq(name, 1, i - 1),
              opt |-> SubSeq(name, i + 2, Len(name))]

\* the walk over a parent's attributes that lets the parent's descriptor
\* replace the one already there
RECURSIVE add_parent_attributes_overriding(_, _, _)
add_parent_attributes_overriding(attributes, pattrs, i) ==
  IF i > Len(pattrs) THEN attributes
  ELSE add_parent_attributes_overriding(
         IF pattrs[i].name \notin AttrNames(attributes)
         THEN Append(attributes, pattrs[i])
         ELSE [k \in 1..Len(attributes) |->
                 IF attributes[k].name = pattrs[i].name THEN pattrs[i]
                 ELSE attributes[k]],
         pattrs, i + 1)

\* lines 44-46: one parent's attributes, added when the name is not there yet
RECURSIVE add_parent_attributes(_, _, _)
add_parent_attributes(attributes, pattrs, i) ==
  IF i > Len(pattrs) THEN attributes
  ELSE add_parent_attributes(
         IF pattrs[i].name \notin AttrNames(attributes)
         THEN Append(attributes, pattrs[i])
         ELSE attributes,
         pattrs, i + 1)

\* lines 42-46: all parents but std::Entity
RECURSIVE collect_attributes(_, _, _)
collect_attributes(attributes, parents, p) ==
  IF p > Len(parents) THEN attributes
  ELSE LET parent == parents[p]
       IN collect_attributes(
            IF ~(parent.name = "Entity" /\ parent.namespace = "std")
            THEN add_parent_attributes(attributes, parent.attributes, 1)
            ELSE attributes,
            parents, p + 1)

\* lines 48-60: the loop over the collected attributes; acc carries type_map's
\* attributes and options, attribute_options, and the exception raised, if any
RECURSIVE classify_attributes(_, _, _, _)
classify_attributes(attributes, defaults, i, acc) ==
  IF i > Len(attributes) \/ acc.error # None THEN acc
  ELSE
    LET name == attributes[i].name
        attr == attributes[i]
        obj == re_search(name)
        has_default == name \in DOMAIN defaults /\ defaults[name] # None
    IN IF name[1] = "_" /\ has_default
       THEN classify_attributes(attributes, defaults, i + 1,
              [acc EXCEPT !.options = Put(@, Tail(name), defaults[name])])
       ELSE IF obj.matched
       THEN IF name \notin DOMAIN defaults
            THEN [acc EXCEPT !.error = "KeyError"]
            ELSE IF defaults[name] = None
            THEN [acc EXCEPT !.error = "AttributeError"]
            ELSE classify_attributes(attributes, defaults, i + 1,
                   [acc EXCEPT !.attribute_options =
                      Put(@, obj.attr,
                          Put(IF obj.attr \in DOMAIN @ THEN @[obj.attr] ELSE EmptyDict,
                              obj.opt, defaults[name]))])
       ELSE classify_attributes(attributes, defaults, i + 1,
              [acc EXCEPT !.attributes =
                 Put(@, name,
                     IF has_default
                     THEN [type |-> attr.type, default |-> defaults[name]]
                     ELSE [type |-> attr.type])])

\* the merge that leaves the options as declared, without a modifier
merge_options_as_declared(attrs, attribute_options) ==
  [a \in DOMAIN attrs |->
     IF a \in DOMAIN attribute_options
     THEN Put(attrs[a], "options", attribute_options[a])
     ELSE attrs[a]]

\* lines 62-66: attach the per-attribute options, modifier defaulting to "rw"
merge_options(attrs, attribute_options) ==
  [a \in DOMAIN attrs |->
     IF a \in DOMAIN attribute_options
     THEN LET o == attribute_options[a]
              opts == IF modifier \in DOMAIN o THEN o ELSE Put(o, modifier, "rw")
          IN Put(attrs[a], "options", opts)
     ELSE attrs[a]]

\* type_to_map(cls): the form schema, or the exception it raises
type_to_map(cls) ==
  LET attributes == collect_attributes(cls.attributes, cls.parents, 1)
      acc == classify_attributes(attributes, cls.defaults, 1,
               [attributes |-> EmptyDict, options |-> EmptyDict,
                attribute_options |-> EmptyDict, error |-> None])
  IN IF acc.error # None
     THEN [ok |-> FALSE, error |-> acc.error]
     ELSE [ok |-> TRUE, type |-> cls.name,
           attributes |-> merge_options(acc.attributes, acc.attribute_options),
           options |-> acc.options]

\* before type_to_map is applied: no entity definition, no schema
NoEntity == [name |-> "", namespace |-> "", attributes |-> << >>,
             defaults |-> EmptyDict, parents |-> << >>]
NoSchema == [ok |-> FALSE, error |-> None]

\* the schema of every known type, derived once
TypeMaps == [t \in KnownTypes |-> type_to_map(get_type(t))]

\* ------------------------------------------------------------ remote store

\* The record identifiers of the store, in the canonical text form of a UUID,
\* and the instance strings the model passes to get: "zz" is no UUID.
RecordIds == {"r1", "r2"}
Instances == RecordIds \cup {"zz"}

\* uuid.UUID(instance): the parsed identifier, or ValueError
uuid_UUID(instance) ==
  IF instance \in RecordIds
  THEN [ok |-> TRUE, id |-> instance]
  ELSE [ok |-> FALSE, error |-> "ValueError"]

\* the forms the store holds records of, and the field mappings of a record
RecordForms == {"Server"}
FieldMaps == {(replicas :> "3"), (replicas :> "3" @@ hostname :> "a")}

\* Protocol responses. A call may fail at the server (500) whatever it is.
Failure(code) == [code |-> code, result |-> [message |-> "error"]]

\* get_record(tid, id)
get_record(id) ==
  {Failure(500)} \cup
  (IF id \in DOMAIN store
   THEN {[code |-> 200,
          result |-> [record |-> [id |-> id, fields |-> store[id].fields]]]}
   ELSE {Failure(404)})

\* put_form(tid, id, form): an upsert whose result the plugins ignore
put_form(type_map) == {[code |-> 200], [code |-> 500]}

\* the orders in which the store may return the records in ids
Orders(ids) ==
  {s \in UNION {[1..n -> ids] : n \in {Cardinality(ids)}} :
     \A i, j \in 1..Len(s) : i # j => s[i] # s[j]}

\* list_records(tid, form_type, include_record): 404 when the form is not
\* defined, which takes a failed put_form and no record of the form
list_records(form_type, include_record, put) ==
  LET ids == {i \in DOMAIN store : store[i].form = form_type}
      Rec(i) == IF include_record
                THEN [id |-> i, fields |-> store[i].fields]
                ELSE [id |-> i]
  IN {Failure(500)} \cup
     (IF put.code # 200 /\ ids = {} THEN {Failure(404)} ELSE {}) \cup
     {[code |-> 200, result |-> [records |-> [k \in 1..Len(s) |-> Rec(s[k])]]] :
        s \in Orders(ids)}

\* set_param(tid, id, value, source, metadata)
set_param(name, value, source, metadata) == {[code |-> 200], [code |-> 500]}

\* records of remote calls, as the plugins issue them
CallGetRecord(id, r) == [call |-> "get_record", id |-> id, code |-> r.code]
CallPutForm(type_map) == [call |-> "put_form", id |-> type_map.type]
CallListRecords(form_type, include_record, r) ==
  [call |-> "list_records", form_type |-> form_type,
   include_record |-> include_record, code |-> r.code,
   ids |-> IF r.code = 200
           THEN [k \in 1..Len(r.result.records) |-> r.result.records[k].id]
           ELSE << >>]
CallSetParam(name, value, source, metadata, r) ==
  [call |-> "set_param", id |-> name, value |-> value, source |-> source,
   metadata |-> metadata, code |-> r.code]

\* ------------------------------------------------------------ outcomes

Unknown(source) == [kind |-> "Unknown", source |-> source]
Value(v) == [kind |-> "value", value |-> v]
Raise(e) == [kind |-> "raise", error |-> e]
Fetch(id) == [kind |-> "fetch", id |-> id]

\* an exception: its class, its message (format) and the values formatted in
Error(type, message, args) == [type |-> type, message |-> message, args |-> args]

ConfigError ==
  Error("Exception",
        "The environment of this model should be configured in config>environment",
        << >>)

\* an entry of unknown_parameters
UnknownEntry(name, metadata) ==
  [parameter |-> name, source |-> "form", metadata |-> metadata]

\* what a call leaves behind: its result and the two module-level collections
Outcome(ret, cache, unknown) == [ret |-> ret, cache |-> cache, unknown |-> unknown]

\* ---------------------------------------------------------------- get

\* get that returns the sentinel for a missing field without registering it
get_lookup_silent(name, instance, cache, unknown) ==
  LET fields == cache[instance]
  IN IF name \in DOMAIN fields
     THEN Outcome(Value(fields[name]), cache, unknown)
     ELSE Outcome(Unknown(name), cache, unknown)

\* get that puts the entry of a missing field in front of the registry
get_lookup_newest_first(name, instance, cache, unknown) ==
  LET fields == cache[instance]
  IN IF name \in DOMAIN fields
     THEN Outcome(Value(fields[name]), cache, unknown)
     ELSE LET metadata == [type |-> "form", record_id |-> instance]
          IN Outcome(Unknown(name), cache,
                     << UnknownEntry(name, metadata) >> \o unknown)

\* lines 100-106: the lookup in the cached fields
get_lookup(name, instance, cache, unknown) ==
  LET fields == cache[instance]
  IN IF name \in DOMAIN fields
     THEN Outcome(Value(fields[name]), cache, unknown)
     ELSE LET metadata == [type |-> "form", record_id |-> instance]
          IN Outcome(Unknown(name), cache,
                     Append(unknown, UnknownEntry(name, metadata)))

\* get that answers from a successful fetch without keeping the fields
get_fetched_uncached(name, instance, result, cache, unknown) ==
  IF result.code = 200
  THEN LET o == get_lookup(name, instance,
                           Put(cache, instance, result.result.record.fields), unknown)
       IN Outcome(o.ret, cache, o.unknown)
  ELSE LET metadata == [type |-> "form", record_id |-> instance]
       IN Outcome(Unknown(name), cache,
                  Append(unknown, UnknownEntry(name, metadata)))

\* get that remembers a failed fetch as a record without fields
get_fetched_caches_failure(name, instance, result, cache, unknown) ==
  IF result.code = 200
  THEN get_lookup(name, instance,
                  Put(cache, instance, result.result.record.fields), unknown)
  ELSE LET metadata == [type |-> "form", record_id |-> instance]
       IN Outcome(Unknown(name), Put(cache, instance, EmptyDict),
                  Append(unknown, UnknownEntry(name, metadata)))

\* get that treats a failed fetch as fatal, as instances does for its listing
get_fetched_raises(name, instance, result, cache, unknown) ==
  IF result.code = 200
  THEN get_lookup(name, instance,
                  Put(cache, instance, result.result.record.fields), unknown)
  ELSE Outcome(Raise(Error("Exception", "Failed to retrieve record: ",
                           << result.result.message >>)),
               cache, unknown)

\* lines 93-106: what get does with the response of get_record
get_fetched(name, instance, result, cache, unknown) ==
  IF result.code = 200
  THEN get_lookup(name, instance,
                  Put(cache, instance, result.result.record.fields), unknown)
  ELSE LET metadata == [type |-> "form", record_id |-> instance]
       IN Outcome(Unknown(name), cache,
                  Append(unknown, UnknownEntry(name, metadata)))

\* ------------------------------------------------------ instances, all

\* instances that returns the identifiers last listed first
RECURSIVE instances_loop_reversed(_, _, _, _)
instances_loop_reversed(records, i, return_list, cache) ==
  IF i > Len(records) THEN [return_list |-> return_list, cache |-> cache]
  ELSE instances_loop_reversed(records, i + 1,
                               << records[i].id >> \o return_list,
                               Put(cache, records[i].id, records[i].fields))

\* instances that keeps the fields already cached for a listed record
RECURSIVE instances_loop_keeps_cached(_, _, _, _)
instances_loop_keeps_cached(records, i, return_list, cache) ==
  IF i > Len(records) THEN [return_list |-> return_list, cache |-> cache]
  ELSE instances_loop_keeps_cached(records, i + 1,
                                   Append(return_list, records[i].id),
                                   IF records[i].id \in DOMAIN cache THEN cache
                                   ELSE Put(cache, records[i].id, records[i].fields))

\* lines 139-142: the loop of instances over the listed records
RECURSIVE instances_loop(_, _, _, _)
instances_loop(records, i, return_list, cache) ==
  IF i > Len(records) THEN [return_list |-> return_list, cache |-> cache]
  ELSE instances_loop(records, i + 1,
                      Append(return_list, records[i].id),
                      Put(cache, records[i].id, records[i].fields))

\* lines 136-144
instances_listed(result, cache, unknown) ==
  IF result.code # 200
  THEN Outcome(Raise(Error("Exception", "Failed to retrieve instances: ",
                           << result.result.message >>)),
               cache, unknown)
  ELSE LET r == instances_loop(result.result.records, 1, << >>, cache)
       IN Outcome(Value(r.return_list), r.cache, unknown)

\* all that returns the field mappings without caching them
RECURSIVE all_loop_uncached(_, _, _, _)
all_loop_uncached(records, i, return_list, cache) ==
  IF i > Len(records) THEN [return_list |-> return_list, cache |-> cache]
  ELSE all_loop_uncached(records, i + 1,
                         Append(return_list, records[i].fields),
                         cache)

\* lines 175-178: the loop of all over the listed records
RECURSIVE all_loop(_, _, _, _)
all_loop(records, i, return_list, cache) ==
  IF i > Len(records) THEN [return_list |-> return_list, cache |-> cache]
  ELSE all_loop(records, i + 1,
                Append(return_list, records[i].fields),
                Put(cache, records[i].id, records[i].fields))

\* lines 172-180
all_listed(result, cache, unknown) ==
  IF result.code # 200
  THEN Outcome(Raise(Error("Exception", "Failed to retrieve instances: ",
                           << result.result.message >>)),
               cache, unknown)
  ELSE LET r == all_loop(result.result.records, 1, << >>, cache)
       IN Outcome(Value(r.return_list), r.cache, unknown)

\* ---------------------------------------------------------------- one

\* one that does not check that name is declared
one_precondition_any_name(name, type_map) ==
  IF record_count \notin DOMAIN type_map.options
     \/ type_map.options[record_count] # "1"
  THEN Raise(Error("Exception",
         "one plugin can only be used on forms for which only one instance can exist.",
         << >>))
  ELSE [kind |-> "pass"]

\* lines 204-208: the checks of one on the schema, before any remote call
one_precondition(name, type_map) ==
  IF record_count \notin DOMAIN type_map.options
     \/ type_map.options[record_count] # "1"
  THEN Raise(Error("Exception",
         "one plugin can only be used on forms for which only one instance can exist.",
         << >>))
  ELSE IF name \notin DOMAIN type_map.attributes
  THEN Raise(Error("Exception", "%s is not defined in form %s",
                   << name, type_map.type >>))
  ELSE [kind |-> "pass"]

\* one that ignores the declared default when no record is listed
one_listed_no_default(name, type_map, result, cache, unknown) ==
  IF result.code # 200
  THEN Outcome(Raise(Error("Exception", "%s", << result.result >>)), cache, unknown)
  ELSE IF result.code = 404 \/ Len(result.result.records) = 0
  THEN LET metadata == [type |-> "form", form |-> type_map.type]
       IN Outcome(Unknown(name), cache,
                  Append(unknown, UnknownEntry(name, metadata)))
  ELSE IF Len(result.result.records) > 1
  THEN Outcome(Raise(Error("Exception",
                 "Only one record for form %s may exist, %d were returned.",
                 << type_map.type, Len(result.result.records) >>)),
               cache, unknown)
  ELSE Outcome(Fetch(result.result.records[1].id), cache, unknown)

\* one that takes the first record when several are listed
one_listed_first_of_many(name, type_map, result, cache, unknown) ==
  IF result.code # 200
  THEN Outcome(Raise(Error("Exception", "%s", << result.result >>)), cache, unknown)
  ELSE IF result.code = 404 \/ Len(result.result.records) = 0
  THEN IF name \in DOMAIN type_map.attributes
          /\ "default" \in DOMAIN type_map.attributes[name]
       THEN Outcome(Value(type_map.attributes[name]["default"]), cache, unknown)
       ELSE LET metadata == [type |-> "form", form |-> type_map.type]
            IN Outcome(Unknown(name), cache,
                       Append(unknown, UnknownEntry(name, metadata)))
  ELSE Outcome(Fetch(result.result.records[1].id), cache, unknown)

\* lines 218-236: what one does with the response of list_records; Fetch(id)
\* when it goes on to fetch the single record
one_listed(name, type_map, result, cache, unknown) ==
  IF result.code # 200
  THEN Outcome(Raise(Error("Exception", "%s", << result.result >>)), cache, unknown)
  ELSE IF result.code = 404 \/ Len(result.result.records) = 0
  THEN IF name \in DOMAIN type_map.attributes
          /\ "default" \in DOMAIN type_map.attributes[name]
       THEN Outcome(Value(type_map.attributes[name]["default"]), cache, unknown)
       ELSE LET metadata == [type |-> "form", form |-> type_map.type]
            IN Outcome(Unknown(name), cache,
                       Append(unknown, UnknownEntry(name, metadata)))
  ELSE IF Len(result.result.records) > 1
  THEN Outcome(Raise(Error("Exception",
                 "Only one record for form %s may exist, %d were returned.",
                 << type_map.type, Len(result.result.records) >>)),
               cache, unknown)
  ELSE Outcome(Fetch(result.result.records[1].id), cache, unknown)

\* one that tags the entry of a record without the field with the form only
one_fetched_untagged(name, result, cache, unknown) ==
  IF "record" \notin DOMAIN result.result
  THEN Outcome(Raise(Error("KeyError", "record", << >>)), cache, unknown)
  ELSE IF name \in DOMAIN result.result.record.fields
  THEN Outcome(Value(result.result.record.fields[name]), cache, unknown)
  ELSE LET metadata == [type |-> "form"]
       IN Outcome(Unknown(name), cache,
                  Append(unknown, UnknownEntry(name, metadata)))

\* one that returns the sentinel for a missing field without registering it
one_fetched_silent(name, result, cache, unknown) ==
  IF "record" \notin DOMAIN result.result
  THEN Outcome(Raise(Error("KeyError", "record", << >>)), cache, unknown)
  ELSE IF name \in DOMAIN result.result.record.fields
  THEN Outcome(Value(result.result.record.fields[name]), cache, unknown)
  ELSE Outcome(Unknown(name), cache, unknown)

\* lines 237-244: what one does with the response of get_record; the response
\* of a failed call carries a message and no record
one_fetched(name, result, cache, unknown) ==
  IF "record" \notin DOMAIN result.result
  THEN Outcome(Raise(Error("KeyError", "record", << >>)), cache, unknown)
  ELSE IF name \in DOMAIN result.result.record.fields
  THEN Outcome(Value(result.result.record.fields[name]), cache, unknown)
  ELSE LET metadata == [type |-> "form", record_id |-> result.result.record.id]
       IN Outcome(Unknown(name), cache,
                  Append(unknown, UnknownEntry(name, metadata)))

\* ---------------------------------------------------------------- report

UnknownRepr == "inmanta.execute.util.Unknown"

\* line 260: "inmanta.execute.util.Unknown" in value
mentions_unknown(value) == \E i \in 1..Len(value) : value[i] = UnknownRepr

\* report that tests the environment before it looks at the value
report_precondition_env_first(value, e) ==
  IF e = None THEN Raise(ConfigError)
  ELSE IF mentions_unknown(value) THEN Value(None)
  ELSE [kind |-> "call"]

\* lines 258-264: report before its remote call: the early return, the
\* configuration error, or "call" when it goes on to set_param
report_precondition(value, e) ==
  IF mentions_unknown(value) THEN Value(None)
  ELSE IF e = None THEN Raise(ConfigError)
  ELSE [kind |-> "call"]

\* ------------------------------------------------------------ the process

NoCall == [op |-> "none", name |-> << >>, arg |-> "", calls |-> << >>,
           ret |-> [kind |-> "none"]]

\* the response codes of the get_record calls among calls
FetchCodes(calls) ==
  LET idx == {i \in 1..Len(calls) : calls[i].call = "get_record"}
  IN IF idx = {} THEN << >> ELSE << calls[CHOOSE i \in idx : TRUE].code >>

\* what is kept of the call made before a call op(arg): when both are a get of
\* the same instance and the earlier one returned, its field name, the
\* response codes of its fetch and the kind of value it returned
NoGet == [op |-> "other"]
Summary(l, op, arg) ==
  IF op = "get" /\ l.op = "get" /\ l.arg = arg /\ l.ret.kind # "raise"
  THEN [op |-> "get", name |-> l.name, fetch |-> FetchCodes(l.calls),
        kind |-> l.ret.kind]
  ELSE NoGet

\* a plugin call returns or raises: out is its Outcome
Finish(op, name, arg, calls, out) ==
  /\ Len(out.unknown) <= MaxUnknown
  /\ RECORD_CACHE' = out.cache
  /\ unknown_parameters' = out.unknown
  /\ last' = [op |-> op, name |-> name, arg |-> arg, calls |-> calls,
              ret |-> out.ret]
  /\ prev' = Summary(last, op, arg)
  /\ first_fetch' = IF tracking /\ op = "get" /\ FetchCodes(calls) = << 200 >>
                    THEN Put(first_fetch, arg, out.cache[arg])
                    ELSE first_fetch
  /\ pc' = "idle"
  /\ UNCHANGED <<env, store, tracking, subject, schema>>

Here(ret) == Outcome(ret, RECORD_CACHE, unknown_parameters)

TypeNotFound(t) == Error("TypeNotFoundException", "could not find type %s", << t >>)

\* get(context, name, instance), lines 72-106
get(name, instance) ==
  /\ pc = "idle"
  /\ IF env = None
     THEN Finish("get", name, instance, << >>, Here(Raise(ConfigError)))
     ELSE IF instance \notin DOMAIN RECORD_CACHE
     THEN LET record_id == uuid_UUID(instance)
          IN IF ~record_id.ok
             THEN Finish("get", name, instance, << >>,
                         Here(Raise(Error(record_id.error, "badly formed UUID", << >>))))
             ELSE \E result \in get_record(record_id.id) :
                    Finish("get", name, instance,
                           << CallGetRecord(record_id.id, result) >>,
                           get_fetched(name, instance, result,
                                       RECORD_CACHE, unknown_parameters))
     ELSE Finish("get", name, instance, << >>,
                 get_lookup(name, instance, RECORD_CACHE, unknown_parameters))

\* a run of a call: the remote calls it made and its Outcome
Run(calls, out) == [calls |-> calls, out |-> out]

\* instances, lines 120-144: the runs the call can take, one for each pair of
\* responses the store can give
instances_runs(instance_type) ==
  IF instance_type \notin KnownTypes
  THEN {Run(<< >>, Here(Raise(TypeNotFound(instance_type))))}
  ELSE IF env = None
  THEN {Run(<< >>, Here(Raise(ConfigError)))}
  ELSE LET type_map == TypeMaps[instance_type]
       IN IF ~type_map.ok
          THEN {Run(<< >>, Here(Raise(Error(type_map.error, "", << >>))))}
          ELSE UNION {
                 {Run(<< CallPutForm(type_map),
                         CallListRecords(type_map.type, TRUE, result) >>,
                      instances_listed(result, RECORD_CACHE, unknown_parameters)) :
                    result \in list_records(type_map.type, TRUE, put)} :
                 put \in put_form(type_map)}

\* all, lines 156-180: the runs the call can take
all_runs(instance_type) ==
  IF instance_type \notin KnownTypes
  THEN {Run(<< >>, Here(Raise(TypeNotFound(instance_type))))}
  ELSE IF env = None
  THEN {Run(<< >>, Here(Raise(ConfigError)))}
  ELSE LET type_map == TypeMaps[instance_type]
       IN IF ~type_map.ok
          THEN {Run(<< >>, Here(Raise(Error(type_map.error, "", << >>))))}
          ELSE UNION {
                 {Run(<< CallPutForm(type_map),
                         CallListRecords(type_map.type, TRUE, result) >>,
                      all_listed(result, RECORD_CACHE, unknown_parameters)) :
                    result \in list_records(type_map.type, TRUE, put)} :
                 put \in put_form(type_map)}

\* instances(context, instance_type, expecting), lines 110-144
instances(instance_type) ==
  /\ pc = "idle"
  /\ \E run \in instances_runs(instance_type) :
       Finish("instances", << >>, instance_type, run.calls, run.out)

\* all(context, instance_type), lines 148-180
all(instance_type) ==
  /\ pc = "idle"
  /\ \E run \in all_runs(instance_type) :
       Finish("all", << >>, instance_type, run.calls, run.out)

\* one(context, name, entity), lines 184-236: up to the response of
\* list_records; with exactly one record listed the call goes on in one_fetch
one(name, entity) ==
  /\ pc = "idle"
  /\ IF entity \notin KnownTypes
     THEN Finish("one", name, entity, << >>, Here(Raise(TypeNotFound(entity))))
     ELSE IF env = None
     THEN Finish("one", name, entity, << >>, Here(Raise(ConfigError)))
     ELSE LET type_map == TypeMaps[entity]
          IN IF ~type_map.ok
             THEN Finish("one", name, entity, << >>,
                         Here(Raise(Error(type_map.error, "", << >>))))
             ELSE IF one_precondition(name, type_map).kind = "raise"
             THEN Finish("one", name, entity, << >>,
                         Here(one_precondition(name, type_map)))
             ELSE \E put \in put_form(type_map) :
                  \E result \in list_records(type_map.type, FALSE, put) :
                    LET calls == << CallPutForm(type_map),
                                    CallListRecords(type_map.type, FALSE, result) >>
                        out == one_listed(name, type_map, result,
                                          RECORD_CACHE, unknown_parameters)
                    IN IF out.ret.kind = "fetch"
                       THEN /\ pc' = "one_fetch"
                            /\ last' = [op |-> "one", name |-> name, arg |-> entity,
                                        calls |-> calls, ret |-> out.ret]
                            /\ prev' = NoGet
                            /\ UNCHANGED <<env, store, RECORD_CACHE,
                                           unknown_parameters, tracking,
                                           first_fetch, subject, schema>>
                       ELSE Finish("one", name, entity, calls, out)

\* one, lines 235-244: the fetch of the single listed record
one_fetch ==
  /\ pc = "one_fetch"
  /\ \E result \in get_record(last.ret.id) :
       Finish("one", last.name, last.arg,
              Append(last.calls, CallGetRecord(last.ret.id, result)),
              one_fetched(last.name, result, RECORD_CACHE, unknown_parameters))

\* report(context, name, value), lines 248-269
report(name, value) ==
  /\ pc = "idle"
  /\ LET pre == report_precondition(value, env)
     IN IF pre.kind # "call"
        THEN Finish("report", name, value, << >>, Here(pre))
        ELSE \E r \in set_param(name, value, "report", [type |-> "report"]) :
               Finish("report", name, value,
                      << CallSetParam(name, value, "report", [type |-> "report"], r) >>,
                      Here(Value(r)))

\* ------------------------------------------------- the store's other clients

\* a record is created, edited or deleted in the store (dashboard, REST API)
StoreCreate(id, form, fields) ==
  /\ id \notin DOMAIN store
  /\ store' = Put(store, id, [form |-> form, fields |-> fields])
  /\ UNCHANGED <<env, RECORD_CACHE, unknown_parameters, pc, last, prev,
                 tracking, first_fetch, subject, schema>>

StoreUpdate(id, fields) ==
  /\ id \in DOMAIN store
  /\ store[id].fields # fields
  /\ store' = [store EXCEPT ![id].fields = fields]
  /\ UNCHANGED <<env, RECORD_CACHE, unknown_parameters, pc, last, prev,
                 tracking, first_fetch, subject, schema>>

StoreDelete(id) ==
  /\ id \in DOMAIN store
  /\ store' = [x \in (DOMAIN store) \ {id} |-> store[x]]
  /\ UNCHANGED <<env, RECORD_CACHE, unknown_parameters, pc, last, prev,
                 tracking, first_fetch, subject, schema>>

\* ----------------------------------------------------------- specification

\* the arguments the compiled model passes to the plugins
Names == {hostname}
TypeNames == {"Server", "Broken", "Missing"}
OneArgs == ({hostname, replicas, widget} \X {"Server"})
           \cup ({hostname} \X {"Multi", "NoCount", "Broken", "Missing"})
ReportValues == { << "x" >>, << "<", UnknownRepr, " object>" >> }

Init ==
  /\ env \in {None, "env1"}
  /\ store = EmptyDict
  /\ RECORD_CACHE = EmptyDict
  /\ unknown_parameters = << >>
  /\ pc = "idle"
  /\ last = NoCall
  /\ prev = NoGet
  /\ tracking = FALSE
  /\ first_fetch = EmptyDict
  /\ subject = NoEntity
  /\ schema = NoSchema

Next ==
  \/ \E name \in Names, instance \in Instances : get(name, instance)
  \/ \E t \in TypeNames : instances(t)
  \/ \E t \in TypeNames : all(t)
  \/ \E a \in OneArgs : one(a[1], a[2])
  \/ one_fetch
  \/ \E value \in ReportValues : report(hostname, value)
  \/ \E id \in RecordIds, form \in RecordForms, fields \in FieldMaps :
       StoreCreate(id, form, fields)
  \/ \E id \in RecordIds, fields \in FieldMaps : StoreUpdate(id, fields)
  \/ \E id \in RecordIds : StoreDelete(id)

Spec == Init /\ [][Next]_vars

\* ------------------------------------- the plugins with first_fetch kept

\* The same plugins and store clients, called on the one form that has
\* records, with the fields each get fetched kept in first_fetch; get is
\* called for one of the two records, the listings hold both.
TrackedIds == {"r1"}

CacheInit ==
  /\ env \in {None, "env1"}
  /\ store = EmptyDict
  /\ RECORD_CACHE = EmptyDict
  /\ unknown_parameters = << >>
  /\ pc = "idle"
  /\ last = NoCall
  /\ prev = NoGet
  /\ tracking = TRUE
  /\ first_fetch = EmptyDict
  /\ subject = NoEntity
  /\ schema = NoSchema

CacheNext ==
  \/ \E name \in Names, instance \in TrackedIds : get(name, instance)
  \/ \E t \in RecordForms : instances(t)
  \/ \E t \in RecordForms : all(t)
  \/ \E name \in Names, t \in RecordForms : one(name, t)
  \/ one_fetch
  \/ report(hostname, << "x" >>)
  \/ \E id \in RecordIds, form \in RecordForms, fields \in FieldMaps :
       StoreCreate(id, form, fields)
  \/ \E id \in RecordIds, fields \in FieldMaps : StoreUpdate(id, fields)
  \/ \E id \in RecordIds : StoreDelete(id)

CacheSpec == CacheInit /\ [][CacheNext]_vars

\* ------------------------------------------- the schema deriver on its own

\* Entity definitions for type_to_map: an entity Form with a parent Base and
\* the root std::Entity. Form declares a choice of OwnNames (type "string"),
\* Base a choice of ParentNames (type "number"), in this order.
hostname__modifier == hostname \o << "_", "_" >> \o modifier
OwnNames == << hostname, hostname__modifier, hostname__widget, n_record_count >>
ParentNames == << hostname, location, hostname__modifier >>

\* the value a declared default evaluates to
DefaultOf(name) ==
  CASE name = hostname -> "h0"
    [] name = location -> "l0"
    [] name = hostname__modifier -> "ro"
    [] name = hostname__widget -> "w"
    [] name = n_record_count -> "1"

\* cls.attributes: the names chosen, in declaration order
Declared(names, chosen, type) ==
  SelectSeq([i \in 1..Len(names) |-> [name |-> names[i], type |-> type]],
            LAMBDA a : a.name \in chosen)

Range(f) == {f[i] : i \in DOMAIN f}

\* get_default_values(): d tells for each declared name whether the dict has
\* no key for it, has None, or has a default expression
EntityDef(own, inherited, d) ==
  LET defaults == [n \in {m \in DOMAIN d : d[m] # "absent"} |->
                     IF d[n] = "set" THEN DefaultOf(n) ELSE None]
  IN [name |-> "Form", namespace |-> "__config__",
      attributes |-> Declared(OwnNames, own, "string"),
      defaults |-> defaults,
      parents |-> << [name |-> "Base", namespace |-> "__config__",
                      attributes |-> Declared(ParentNames, inherited, "number"),
                      defaults |-> EmptyDict,
                      parents |-> << >>],
                     Entity("std::Entity") >>]

EntityDefs ==
  UNION { UNION { {EntityDef(own, inherited, d) :
                     d \in [own \cup inherited -> {"absent", None, "set"}]} :
                  inherited \in SUBSET Range(ParentNames)} :
          own \in SUBSET Range(OwnNames)}

SchemaInit ==
  /\ env = None
  /\ store = EmptyDict
  /\ RECORD_CACHE = EmptyDict
  /\ unknown_parameters = << >>
  /\ pc = "derive"
  /\ last = NoCall
  /\ prev = NoGet
  /\ tracking = FALSE
  /\ first_fetch = EmptyDict
  /\ subject \in EntityDefs
  /\ schema = NoSchema

\* type_to_map(cls), lines 33-68
derive ==
  /\ pc = "derive"
  /\ schema' = type_to_map(subject)
  /\ pc' = "derived"
  /\ UNCHANGED <<env, store, RECORD_CACHE, unknown_parameters, last, prev,
                 tracking, first_fetch, subject>>

SchemaNext == derive

SchemaSpec == SchemaInit /\ [][SchemaNext]_vars

\* ------------------------------------------------------------------ claims

\* the plugin calls
Plugins == {"get", "instances", "all", "one", "report"}

\* the call recorded in l has returned or raised
Done(l) == l.op \in Plugins /\ l.ret.kind # "fetch"

\* the step completes a call of plugin op, which last' then records (the store's
\* other clients never change pc or last; the plugins never change the store)
Completed(op) == store' = store /\ pc' = "idle" /\ last'.op = op

\* the response code of the list_records call among calls, in a sequence
ListCodes(calls) ==
  LET idx == {i \in 1..Len(calls) : calls[i].call = "list_records"}
  IN IF idx = {} THEN << >> ELSE << calls[CHOOSE i \in idx : TRUE].code >>

IsConfigError(ret) ==
  /\ ret.kind = "raise"
  /\ ret.error.type = ConfigError.type
  /\ ret.error.message = ConfigError.message

\* C1 as stated: two successive get calls for one record identifier, with the
\* environment configured, make exactly one get_record call in total, the
\* second call making none.
C1_TwoGetsOneFetch ==
  (pc = "idle" /\ last.op = "get" /\ prev.op = "get" /\ last.ret.kind # "raise")
  => /\ Len(prev.fetch) + Len(FetchCodes(last.calls)) = 1
     /\ last.calls = << >>

\* C1 amended: the total depends on the first call. When its fetch succeeded
\* (the identifier was not cached and get_record answered 200) the two calls
\* make one get_record call and the second is served from the cache; when the
\* identifier was cached already neither call fetches; when the first fetch
\* failed nothing was cached and the second call fetches again.
C1_FetchesOfTwoGets ==
  (pc = "idle" /\ last.op = "get" /\ prev.op = "get" /\ last.ret.kind # "raise")
  => LET total == Len(prev.fetch) + Len(FetchCodes(last.calls))
     IN /\ prev.fetch = << 200 >> => (total = 1 /\ last.calls = << >>)
        /\ prev.fetch = << >> => total = 0
        /\ (prev.fetch # << >> /\ prev.fetch # << 200 >>) => total = 2

\* a second get served from the cache that the first get filled
C1_Witness ==
  /\ pc = "idle" /\ last.op = "get" /\ prev.op = "get"
  /\ prev.fetch = << 200 >>
  /\ last.calls = << >>
  /\ last.ret.kind = "value"

\* C2 as stated, for the calls whose type name resolves: a call made while the
\* environment is unset raises the configuration error, makes no remote call
\* and leaves the cache and the registry as they were (empty, as the
\* environment is unset from the start).
C2_UnsetEnvironmentFails ==
  (env = None /\ Done(last)
   /\ (last.op \in {"instances", "all", "one"} => last.arg \in KnownTypes))
  => /\ IsConfigError(last.ret)
     /\ last.calls = << >>
     /\ RECORD_CACHE = EmptyDict
     /\ unknown_parameters = << >>

\* C3 as stated: a one call whose listing answered 404 does not fail: it
\* returns the declared default, or registers an Unknown tagged with the form
\* and returns the sentinel.
C3_ListingNotFoundIsEmpty ==
  (Done(last) /\ last.op = "one" /\ ListCodes(last.calls) = << 404 >>)
  => LET attr == TypeMaps[last.arg].attributes[last.name]
     IN IF "default" \in DOMAIN attr
        THEN last.ret.kind = "value" /\ last.ret.value = attr["default"]
        ELSE /\ last.ret.kind = "Unknown"
             /\ Len(unknown_parameters) > 0
             /\ unknown_parameters[Len(unknown_parameters)] =
                  UnknownEntry(last.name, [type |-> "form", form |-> last.arg])

\* C4 as stated: a get or one call whose get_record fetch answered with a
\* non-success code returns the Unknown sentinel and has registered an Unknown
\* entry for its name.
C4_FailedFetchDefers ==
  (Done(last) /\ last.op \in {"get", "one"}
   /\ FetchCodes(last.calls) # << >> /\ FetchCodes(last.calls) # << 200 >>)
  => /\ last.ret.kind = "Unknown"
     /\ Len(unknown_parameters) > 0
     /\ unknown_parameters[Len(unknown_parameters)].parameter = last.name

\* the step is a get call, which last' records
GetStep == Completed("get")

\* the step is the part of a one call up to the response of list_records
OneStep == pc = "idle" /\ store' = store /\ last'.op = "one"

\* the records of a form in the store
RecordsOf(form) == {i \in DOMAIN store : store[i].form = form}

\* C5 as stated: after a get(name, id) that returned the Unknown sentinel, once
\* the store holds record id with field name, the next get(name, id) (whose
\* fetch, if it makes one, succeeds) returns that field's value.
C5_RetryResolves ==
  [][(/\ GetStep
      /\ last.op = "get" /\ last.ret.kind = "Unknown"
      /\ last'.arg = last.arg /\ last'.name = last.name
      /\ last.arg \in DOMAIN store
      /\ last.name \in DOMAIN store[last.arg].fields
      /\ FetchCodes(last'.calls) \in {<< >>, << 200 >>})
     => /\ last'.ret.kind = "value"
        /\ last'.ret.value = store[last.arg].fields[last.name]]_vars

\* C5 amended: retry resolves the not-found case only. A get that returns the
\* sentinel after a failed fetch leaves id uncached, and a get(name, id) made
\* while id is uncached, the store holds the record with the field and the
\* fetch succeeds, returns the field's value. A get that returns the sentinel for
\* a record that lacks the field leaves those fields cached, and a get(name, id)
\* made while the cached fields lack the name returns the sentinel without a
\* fetch, whatever the store holds.
C5_RetryByCacheState ==
  [][(GetStep /\ env # None /\ last'.arg \in RecordIds)
     => LET i == last'.arg
            n == last'.name
        IN /\ (/\ i \notin DOMAIN RECORD_CACHE
               /\ i \in DOMAIN store /\ n \in DOMAIN store[i].fields
               /\ FetchCodes(last'.calls) = << 200 >>)
              => (last'.ret.kind = "value" /\ last'.ret.value = store[i].fields[n])
           /\ (i \in DOMAIN RECORD_CACHE /\ n \notin DOMAIN RECORD_CACHE[i])
              => (last'.ret.kind = "Unknown" /\ last'.calls = << >>)
           /\ last'.ret.kind = "Unknown"
              => IF FetchCodes(last'.calls) \in {<< >>, << 200 >>}
                 THEN i \in DOMAIN RECORD_CACHE' /\ n \notin DOMAIN RECORD_CACHE'[i]
                 ELSE i \notin DOMAIN RECORD_CACHE']_vars

\* a get that resolves after the same get was deferred for a record not found
C5_Witness ==
  /\ pc = "idle" /\ last.op = "get" /\ prev.op = "get"
  /\ prev.name = last.name
  /\ prev.kind = "Unknown" /\ prev.fetch = << 404 >>
  /\ FetchCodes(last.calls) = << 200 >>
  /\ last.ret.kind = "value"

\* C6: a get whose instance is not cached and whose fetch answers with a
\* non-success code appends exactly one Unknown entry {parameter: name, source:
\* "form", metadata: {type: "form", record_id: instance}}, returns the Unknown
\* sentinel for name and leaves the cache as it was, instance uncached.
C6_FailedFetch ==
  [][(/\ GetStep
      /\ last'.arg \notin DOMAIN RECORD_CACHE
      /\ FetchCodes(last'.calls) # << >>
      /\ FetchCodes(last'.calls) # << 200 >>)
     => /\ unknown_parameters' =
             Append(unknown_parameters,
                    [parameter |-> last'.name, source |-> "form",
                     metadata |-> [type |-> "form", record_id |-> last'.arg]])
        /\ last'.ret.kind = "Unknown" /\ last'.ret.source = last'.name
        /\ RECORD_CACHE' = RECORD_CACHE
        /\ last'.arg \notin DOMAIN RECORD_CACHE']_vars

\* a get deferred by a failed fetch
C6_Witness ==
  /\ pc = "idle" /\ last.op = "get"
  /\ FetchCodes(last.calls) \in {<< 404 >>, << 500 >>}
  /\ last.ret.kind = "Unknown"
  /\ last.arg \notin DOMAIN RECORD_CACHE
  /\ Len(unknown_parameters) > 0
  /\ unknown_parameters[Len(unknown_parameters)].metadata.record_id = last.arg

\* C7: a get that has the record's fields (cached, or fetched with code 200)
\* returns fields[name] and appends nothing when name is a key; otherwise it
\* returns the Unknown sentinel and appends exactly one entry, with parameter
\* name and metadata record_id the instance.
C7_FieldLookup ==
  [][(/\ GetStep /\ env # None
      /\ \/ last'.arg \in DOMAIN RECORD_CACHE
         \/ FetchCodes(last'.calls) = << 200 >>)
     => LET i == last'.arg
            n == last'.name
            fields == IF i \in DOMAIN RECORD_CACHE
                      THEN RECORD_CACHE[i]
                      ELSE store[i].fields
        IN IF n \in DOMAIN fields
           THEN /\ last'.ret.kind = "value" /\ last'.ret.value = fields[n]
                /\ unknown_parameters' = unknown_parameters
           ELSE /\ last'.ret.kind = "Unknown" /\ last'.ret.source = n
                /\ Len(unknown_parameters') = Len(unknown_parameters) + 1
                /\ SubSeq(unknown_parameters', 1, Len(unknown_parameters))
                     = unknown_parameters
                /\ unknown_parameters'[Len(unknown_parameters')].parameter = n
                /\ unknown_parameters'[Len(unknown_parameters')].metadata.record_id = i]_vars

\* a get served from the cache whose field is missing in the cached fields
C7_Witness ==
  /\ pc = "idle" /\ last.op = "get" /\ last.calls = << >>
  /\ last.ret.kind = "Unknown"
  /\ last.arg \in DOMAIN RECORD_CACHE
  /\ last.name \notin DOMAIN RECORD_CACHE[last.arg]
  /\ Len(unknown_parameters) > 0
  /\ unknown_parameters[Len(unknown_parameters)].metadata.record_id = last.arg

\* C8: one on a type whose derived schema has no record_count option, or one
\* other than 1, or does not declare name, raises before any remote call and
\* leaves the cache and the registry as they were, whatever the store holds.
C8_OnePreconditions ==
  [][(/\ OneStep
      /\ last'.arg \in KnownTypes
      /\ TypeMaps[last'.arg].ok
      /\ LET type_map == TypeMaps[last'.arg]
         IN \/ record_count \notin DOMAIN type_map.options
            \/ type_map.options[record_count] # "1"
            \/ last'.name \notin DOMAIN type_map.attributes)
     => /\ pc' = "idle"
        /\ last'.ret.kind = "raise"
        /\ last'.calls = << >>
        /\ RECORD_CACHE' = RECORD_CACHE
        /\ unknown_parameters' = unknown_parameters]_vars

\* a one call refused for a name the singleton form does not declare, with the
\* environment configured
C8_Witness ==
  /\ pc = "idle" /\ last.op = "one" /\ env # None
  /\ last.arg = "Server" /\ last.name \notin DOMAIN TypeMaps["Server"].attributes
  /\ last.ret.kind = "raise" /\ last.calls = << >>

\* C9: one on a singleton form whose listing succeeds with zero records returns
\* the declared default of name and appends nothing, or, with no default
\* declared, returns the Unknown sentinel and appends exactly one entry whose
\* metadata holds the form type under key form and no record_id.
C9_ZeroRecords ==
  [][(/\ OneStep
      /\ ListCodes(last'.calls) = << 200 >>
      /\ RecordsOf(last'.arg) = {})
     => LET attr == TypeMaps[last'.arg].attributes[last'.name]
        IN /\ pc' = "idle"
           /\ IF "default" \in DOMAIN attr
              THEN /\ last'.ret.kind = "value"
                   /\ last'.ret.value = attr["default"]
                   /\ unknown_parameters' = unknown_parameters
              ELSE /\ last'.ret.kind = "Unknown"
                   /\ unknown_parameters' =
                        Append(unknown_parameters,
                               [parameter |-> last'.name, source |-> "form",
                                metadata |-> [type |-> "form", form |-> last'.arg]])
                   /\ "record_id" \notin
                        DOMAIN unknown_parameters'[Len(unknown_parameters')].metadata]_vars

\* a one call that returned the declared default for an empty listing
C9_Witness ==
  /\ pc = "idle" /\ last.op = "one"
  /\ ListCodes(last.calls) = << 200 >> /\ FetchCodes(last.calls) = << >>
  /\ "default" \in DOMAIN TypeMaps[last.arg].attributes[last.name]
  /\ last.ret.kind = "value"
  /\ last.ret.value = TypeMaps[last.arg].attributes[last.name]["default"]

\* C10: one on a singleton form whose listing holds two or more records raises,
\* with a message that cites the form type and the record count; it fetches no
\* record and appends no Unknown entry.
C10_SeveralRecords ==
  [][(/\ OneStep
      /\ ListCodes(last'.calls) = << 200 >>
      /\ Cardinality(RecordsOf(last'.arg)) >= 2)
     => /\ pc' = "idle"
        /\ last'.ret.kind = "raise"
        /\ last'.ret.error.message =
             "Only one record for form %s may exist, %d were returned."
        /\ last'.ret.error.args = << last'.arg, Cardinality(RecordsOf(last'.arg)) >>
        /\ FetchCodes(last'.calls) = << >>
        /\ unknown_parameters' = unknown_parameters]_vars

\* a one call refused because two records were listed
C10_Witness ==
  /\ pc = "idle" /\ last.op = "one"
  /\ ListCodes(last.calls) = << 200 >>
  /\ last.ret.kind = "raise"
  /\ Len(last.ret.error.args) = 2
  /\ last.ret.error.args[2] = 2

\* the step is the fetch that ends a one call
OneFetchStep == pc = "one_fetch" /\ pc' = "idle"

\* C11: one on a singleton form whose listing holds exactly one record goes on
\* to fetch that record by its identifier; when the fetch returns the record,
\* the call returns fields[name] and appends nothing if name is in the
\* record's fields, and otherwise appends exactly one Unknown entry tagged with
\* the record's id and returns the Unknown sentinel.
C11_SingleRecord ==
  [][/\ (/\ OneStep
          /\ ListCodes(last'.calls) = << 200 >>
          /\ Cardinality(RecordsOf(last'.arg)) = 1)
         => /\ pc' = "one_fetch"
            /\ last'.ret = Fetch(CHOOSE i \in RecordsOf(last'.arg) : TRUE)
            /\ unknown_parameters' = unknown_parameters
     /\ OneFetchStep
         => LET id == last.ret.id
                fetch == last'.calls[Len(last'.calls)]
            IN /\ last'.op = "one" /\ last'.name = last.name
               /\ Len(last'.calls) = Len(last.calls) + 1
               /\ fetch.call = "get_record" /\ fetch.id = id
               /\ fetch.code = 200
                  => IF last.name \in DOMAIN store[id].fields
                     THEN /\ last'.ret = Value(store[id].fields[last.name])
                          /\ unknown_parameters' = unknown_parameters
                     ELSE /\ last'.ret = Unknown(last.name)
                          /\ unknown_parameters' =
                               Append(unknown_parameters,
                                      [parameter |-> last.name, source |-> "form",
                                       metadata |-> [type |-> "form",
                                                     record_id |-> id]])]_vars

\* a one call that fetched the single record and found the field missing
C11_Witness ==
  /\ pc = "idle" /\ last.op = "one"
  /\ ListCodes(last.calls) = << 200 >> /\ FetchCodes(last.calls) = << 200 >>
  /\ last.ret.kind = "Unknown"
  /\ Len(unknown_parameters) > 0
  /\ "record_id" \in DOMAIN unknown_parameters[Len(unknown_parameters)].metadata
  /\ unknown_parameters[Len(unknown_parameters)].metadata.record_id
       = last.calls[Len(last.calls)].id

\* a value denotes an Unknown sentinel when its text holds the sentinel's
\* class path, as the text of an Unknown object does
DenotesUnknown(value) == UnknownRepr \in {value[i] : i \in 1..Len(value)}

\* C12: report(name, value) with a value that denotes an Unknown sentinel makes
\* no store call, returns without error and appends nothing to the registry;
\* with any other value and the environment configured it makes exactly one
\* set_param call, for name and value with source "report" and metadata
\* {type: "report"}, and returns that call's result.
C12_Report ==
  [][Completed("report")
     => IF DenotesUnknown(last'.arg)
        THEN /\ last'.calls = << >>
             /\ last'.ret = Value(None)
             /\ unknown_parameters' = unknown_parameters
        ELSE env # None
             => /\ Len(last'.calls) = 1
                /\ last'.calls[1].call = "set_param"
                /\ last'.calls[1].id = last'.name
                /\ last'.calls[1].value = last'.arg
                /\ last'.calls[1].source = "report"
                /\ last'.calls[1].metadata = [type |-> "report"]
                /\ last'.ret.kind = "value"
                /\ last'.ret.value.code = last'.calls[1].code
                /\ unknown_parameters' = unknown_parameters]_vars

\* a report of a value that denotes an Unknown, skipped with the environment
\* unset
C12_Witness ==
  /\ pc = "idle" /\ last.op = "report" /\ env = None
  /\ DenotesUnknown(last.arg)
  /\ last.calls = << >> /\ last.ret = Value(None)

\* the list_records call among calls
Listing(calls) == calls[CHOOSE i \in 1..Len(calls) : calls[i].call = "list_records"]

\* C13: an instances call whose listing succeeds returns the identifiers of
\* exactly the records in the response, in the response's order (the response
\* holds the store's records of the form, each once), and afterwards the cache
\* maps each of them to the record's fields from the response, every other
\* cache entry being as before; a call whose listing does not succeed raises
\* and leaves the cache and the registry as they were.
C13_Instances ==
  [][(Completed("instances") /\ ListCodes(last'.calls) # << >>)
     => LET listing == Listing(last'.calls)
            ids == listing.ids
            listed == {ids[k] : k \in 1..Len(ids)}
        IN IF listing.code = 200
           THEN /\ listing.include_record
                /\ listed = RecordsOf(last'.arg) /\ Len(ids) = Cardinality(listed)
                /\ last'.ret = Value(ids)
                /\ DOMAIN RECORD_CACHE' = DOMAIN RECORD_CACHE \cup listed
                /\ \A i \in listed : RECORD_CACHE'[i] = store[i].fields
                /\ \A i \in DOMAIN RECORD_CACHE \ listed :
                     RECORD_CACHE'[i] = RECORD_CACHE[i]
                /\ unknown_parameters' = unknown_parameters
           ELSE /\ last'.ret.kind = "raise"
                /\ last'.ret.error.message = "Failed to retrieve instances: "
                /\ RECORD_CACHE' = RECORD_CACHE
                /\ unknown_parameters' = unknown_parameters]_vars

\* an instances call that listed two records with different fields, second
\* identifier first, and cached both
C13_Witness ==
  /\ pc = "idle" /\ last.op = "instances"
  /\ last.ret = Value(<< "r2", "r1" >>)
  /\ DOMAIN RECORD_CACHE = {"r1", "r2"}
  /\ RECORD_CACHE["r1"] = store["r1"].fields
  /\ RECORD_CACHE["r1"] # RECORD_CACHE["r2"]

\* a run of instances and a run of all that agree in everything but the
\* result: the same remote calls with the same responses, the same cache and
\* registry afterwards, both raising the same exception or both returning, all
\* the field mappings of the records whose identifiers instances returns
SameButResult(ri, ra) ==
  /\ ra.calls = ri.calls
  /\ ra.out.cache = ri.out.cache
  /\ ra.out.unknown = ri.out.unknown
  /\ ra.out.ret.kind = ri.out.ret.kind
  /\ ri.out.ret.kind = "raise" => ra.out.ret = ri.out.ret
  /\ ri.out.ret.kind = "value"
     => /\ Len(ra.out.ret.value) = Len(ri.out.ret.value)
        /\ \A k \in 1..Len(ri.out.ret.value) :
             ra.out.ret.value[k] = store[ri.out.ret.value[k]].fields

\* the remote calls of a listing call that got as far as the store: one
\* put_form with the derived schema, then one list_records with full bodies
PutThenList(calls, t) ==
  /\ Len(calls) = 2
  /\ calls[1] = [call |-> "put_form", id |-> TypeMaps[t].type]
  /\ calls[2].call = "list_records"
  /\ calls[2].form_type = TypeMaps[t].type
  /\ calls[2].include_record

\* C14: in every state and for every type name, instances and all take the
\* same runs but for the result: for each run of one there is a run of the
\* other with the same remote calls (none when the call fails before the store,
\* else put_form then list_records with full bodies), the same failure, and
\* the same cache and registry afterwards, all returning the field mappings
\* where instances returns the identifiers, position by position.
C14_AllLikeInstances ==
  pc = "idle"
  => \A t \in TypeNames :
       LET of_instances == instances_runs(t)
           of_all == all_runs(t)
       IN /\ \A ri \in of_instances : \E ra \in of_all : SameButResult(ri, ra)
          /\ \A ra \in of_all : \E ri \in of_instances : SameButResult(ri, ra)
          /\ \A ri \in of_instances : ri.calls = << >> \/ PutThenList(ri.calls, t)
          /\ \A ra \in of_all : ra.calls = << >> \/ PutThenList(ra.calls, t)
          /\ (env # None /\ t \in KnownTypes /\ TypeMaps[t].ok)
             => \A ri \in of_instances : ri.calls # << >>

\* an all call that returned the different field mappings of two records,
\* where an instances call would return their two identifiers
C14_Witness ==
  /\ pc = "idle" /\ last.op = "all"
  /\ last.ret.kind = "value" /\ Len(last.ret.value) = 2
  /\ last.ret.value[1] # last.ret.value[2]
  /\ \E ri \in instances_runs(last.arg) :
       /\ ri.out.ret.kind = "value"
       /\ ri.calls = last.calls
       /\ ri.out.cache = RECORD_CACHE

\* what get returns for name from the fields it has
Looked(fields, name) ==
  IF name \in DOMAIN fields THEN Value(fields[name]) ELSE Unknown(name)

\* the step completes an instances or all call whose listing succeeded
ListedStep ==
  /\ Completed("instances") \/ Completed("all")
  /\ ListCodes(last'.calls) = << 200 >>

\* C15 as stated: once a get has fetched an instance successfully, every
\* later get for it makes no fetch and returns what the fields fetched by that
\* first get hold for the name, whatever was done in between.
C15_LaterGetsSeeFirstFetch ==
  [][(GetStep /\ last'.arg \in DOMAIN first_fetch)
     => /\ last'.calls = << >>
        /\ last'.ret = Looked(first_fetch[last'.arg], last'.name)]_vars

\* C15 amended: once a get has fetched an instance successfully, every later
\* get for it makes no fetch, whatever was done in between, and returns what
\* the Record Cache holds for the name, leaving the cache as it is. The cache
\* holds the fields that first get fetched until an instances or all call
\* lists the record, which puts the fields of its listing in their place; no
\* other step (a store update, a get, one or report call, a failed listing)
\* changes them.
C15_LaterGetsSeeCache ==
  [][/\ (GetStep /\ last'.arg \in DOMAIN first_fetch)
        => /\ last'.calls = << >>
           /\ last'.arg \in DOMAIN RECORD_CACHE
           /\ last'.ret = Looked(RECORD_CACHE[last'.arg], last'.name)
           /\ RECORD_CACHE' = RECORD_CACHE
     /\ (GetStep /\ FetchCodes(last'.calls) = << 200 >>)
        => /\ last'.arg \notin DOMAIN first_fetch
           /\ first_fetch' = Put(first_fetch, last'.arg, store[last'.arg].fields)
           /\ RECORD_CACHE'[last'.arg] = first_fetch'[last'.arg]
     /\ \A i \in DOMAIN first_fetch :
          /\ i \in DOMAIN first_fetch' /\ first_fetch'[i] = first_fetch[i]
          /\ i \in DOMAIN RECORD_CACHE /\ i \in DOMAIN RECORD_CACHE'
          /\ IF ListedStep /\ i \in Range(Listing(last'.calls).ids)
             THEN RECORD_CACHE'[i] = store[i].fields
             ELSE RECORD_CACHE'[i] = RECORD_CACHE[i]]_vars

\* a get served from the cache that returns a field the first fetch of the
\* instance did not hold: a listing has replaced the cached fields since
C15_Witness ==
  /\ pc = "idle" /\ last.op = "get" /\ last.calls = << >>
  /\ last.arg \in DOMAIN first_fetch
  /\ last.name \notin DOMAIN first_fetch[last.arg]
  /\ last.ret.kind = "value"
  /\ last.ret = Looked(RECORD_CACHE[last.arg], last.name)

\* type_to_map has been applied and returned a schema
Derived == pc = "derived" /\ schema.ok

\* the supertypes of an entity but the implicit base type, and the base type
Supers(cls) ==
  {p \in Range(cls.parents) : ~(p.name = "Entity" /\ p.namespace = "std")}
Roots(cls) ==
  {p \in Range(cls.parents) : p.name = "Entity" /\ p.namespace = "std"}

\* the names an entity declares itself, and those its supertypes declare
OwnDeclared(cls) == AttrNames(cls.attributes)
SuperDeclared(cls) == UNION {AttrNames(p.attributes) : p \in Supers(cls)}

\* the type of the descriptor of name n among attributes
TypeIn(attributes, n) ==
  attributes[CHOOSE i \in 1..Len(attributes) : attributes[i].name = n].type

\* a name without underscore: neither a schema option nor an attribute option
Plain(n) == \A i \in 1..Len(n) : n[i] # "_"

\* C16: in a derived schema a field the entity declares itself has the
\* entity's own descriptor, also when a supertype declares the name; a field
\* declared by a supertype only is included, with that supertype's
\* descriptor; and nothing is included that only std::Entity declares.
C16_OwnAttributesWin ==
  Derived
  => LET own == OwnDeclared(subject)
         inherited == SuperDeclared(subject)
     IN /\ \A n \in own :
             Plain(n) => /\ n \in DOMAIN schema.attributes
                         /\ schema.attributes[n]["type"]
                              = TypeIn(subject.attributes, n)
        /\ \A p \in Supers(subject) : \A n \in AttrNames(p.attributes) \ own :
             Plain(n) => /\ n \in DOMAIN schema.attributes
                         /\ schema.attributes[n]["type"] = TypeIn(p.attributes, n)
        /\ \A n \in DOMAIN schema.attributes : n \in own \cup inherited
        /\ \A r \in Roots(subject) :
             \A n \in AttrNames(r.attributes) \ (own \cup inherited) :
               n \notin DOMAIN schema.attributes

\* a schema of an entity that declares hostname as its supertype does, and
\* inherits location
C16_Witness ==
  /\ Derived
  /\ hostname \in OwnDeclared(subject) /\ hostname \in SuperDeclared(subject)
  /\ location \in SuperDeclared(subject)
  /\ schema.attributes[hostname]["type"] = "string"
  /\ schema.attributes[location]["type"] = "number"
  /\ ident \notin DOMAIN schema.attributes

\* name n has the form X__opt, and the opt it names
IsOptionOf(n, X) ==
  /\ Len(n) >= Len(X) + 3
  /\ SubSeq(n, 1, Len(X)) = X
  /\ n[Len(X) + 1] = "_" /\ n[Len(X) + 2] = "_"
OptionIn(n, X) == SubSeq(n, Len(X) + 3, Len(n))

\* C17: in a derived schema, for every field X: when X__modifier is declared
\* with default "ro", attributes[X].options.modifier is "ro"; when no X__opt is
\* declared, attributes[X] has no options key; when some X__opt is declared
\* and X__modifier is not, attributes[X].options holds the declared options
\* with their defaults, and modifier = "rw".
C17_AttributeOptions ==
  Derived
  => \A X \in DOMAIN schema.attributes :
       LET declared == {n \in OwnDeclared(subject) \cup SuperDeclared(subject) :
                          IsOptionOf(n, X)}
           X__modifier == X \o << "_", "_" >> \o modifier
       IN /\ (X__modifier \in declared /\ subject.defaults[X__modifier] = "ro")
             => /\ "options" \in DOMAIN schema.attributes[X]
                /\ schema.attributes[X]["options"][modifier] = "ro"
          /\ declared = {}
             => "options" \notin DOMAIN schema.attributes[X]
          /\ (declared # {} /\ X__modifier \notin declared)
             => /\ "options" \in DOMAIN schema.attributes[X]
                /\ LET options == schema.attributes[X]["options"]
                   IN /\ DOMAIN options
                           = {OptionIn(n, X) : n \in declared} \cup {modifier}
                      /\ \A n \in declared :
                           options[OptionIn(n, X)] = subject.defaults[n]
                      /\ options[modifier] = "rw"

\* a schema of an entity that declares hostname and hostname__widget and no
\* hostname__modifier
C17_Witness ==
  /\ Derived
  /\ hostname \in DOMAIN schema.attributes
  /\ hostname__widget \in OwnDeclared(subject)
  /\ hostname__modifier \notin OwnDeclared(subject) \cup SuperDeclared(subject)
  /\ schema.attributes[hostname]["options"] = (widget :> "w" @@ modifier :> "rw")

\* C18 as stated: type_to_map returns a schema for every entity definition,
\* whatever it and its supertypes declare and with or without defaults.
C18_DeriverNeverFails ==
  pc = "derived" => schema.ok

\* sequence a is the beginning of sequence b
IsPrefix(a, b) == Len(a) <= Len(b) /\ SubSeq(b, 1, Len(a)) = a

\* C19: the registry is append-only: in every step, whatever call or store
\* change it is and whether the call returns or fails, the registry before the
\* step is a prefix of the registry after it.
C19_AppendOnly ==
  [][IsPrefix(unknown_parameters, unknown_parameters')]_vars

\* a registry of two different entries, the second appended by a get of a
\* cached record that lacks the field
C19_Witness ==
  /\ pc = "idle" /\ last.op = "get" /\ last.calls = << >>
  /\ last.ret.kind = "Unknown"
  /\ Len(unknown_parameters) = 2
  /\ unknown_parameters[1] # unknown_parameters[2]
  /\ unknown_parameters[2].parameter = last.name

\* C20: a get or one call returns the Unknown sentinel exactly when it has
\* appended one entry to the registry, with parameter the requested name and
\* source "form"; a call that returns a value or raises appends nothing (nor
\* does the part of one before its fetch); instances, all and report never
\* append, and never return the sentinel.
C20_UnknownIffRegistered ==
  [][/\ (Completed("get") \/ Completed("one"))
        => IF last'.ret.kind = "Unknown"
           THEN /\ Len(unknown_parameters') = Len(unknown_parameters) + 1
                /\ IsPrefix(unknown_parameters, unknown_parameters')
                /\ unknown_parameters'[Len(unknown_parameters')].parameter
                     = last'.name
                /\ unknown_parameters'[Len(unknown_parameters')].source = "form"
                /\ last'.ret.source = last'.name
           ELSE /\ last'.ret.kind \in {"value", "raise"}
                /\ unknown_parameters' = unknown_parameters
     /\ (Completed("instances") \/ Completed("all") \/ Completed("report"))
        => /\ last'.ret.kind \in {"value", "raise"}
           /\ unknown_parameters' = unknown_parameters
     /\ pc' = "one_fetch" => unknown_parameters' = unknown_parameters]_vars

\* a one call that found no record and no default: it returned the sentinel
\* and its entry, tagged with the form, is the last of the registry
C20_Witness ==
  /\ pc = "idle" /\ last.op = "one"
  /\ FetchCodes(last.calls) = << >>
  /\ last.ret = Unknown(last.name)
  /\ Len(unknown_parameters) > 0
  /\ unknown_parameters[Len(unknown_parameters)]
       = [parameter |-> last.name, source |-> "form",
          metadata |-> [type |-> "form", form |-> last.arg]]

====
